---- MODULE Spec2Model ----
(***************************************************************************)
(* Model of the text normalisation layer of the job-listing pipeline:      *)
(* DataPipeline._parse_salary, DataPipeline._extract_city_smart,           *)
(* DataPipeline._parse_exp_degree, DataPipeline.clean_data and             *)
(* DataPipeline.feature_engineering (src/src/etl_pipeline.py), with        *)
(* SpiderFinal.clean_salary (src/src/spider_pro.py) before it and          *)
(* SalaryPredictor.train (src/src/model_train.py, src/main.py) after it.   *)
(*                                                                         *)
(* A Python str is a sequence of one-character strings.  Characters that   *)
(* are not ASCII are written by their pinyin ("nan", "jing" for the two    *)
(* characters of the city Nanjing, "dot" for the middle dot).              *)
(* A Python number x is the integer x * Scale (exact fixed point, three    *)
(* decimals), so that low / 1000 and (low + high) * 500 are computed       *)
(* exactly as real arithmetic computes them.                               *)
(***************************************************************************)
EXTENDS Integers, Sequences, FiniteSets, TLC

VARIABLES
    pc,          \* position of the running call
    salary_str,  \* argument of _parse_salary
    salary_ret,  \* value returned by _parse_salary
    raw_text,    \* argument of _extract_city_smart
    city_ret,    \* value returned by _extract_city_smart
    df_in,       \* the DataFrame handed to clean_data
    df,          \* the DataFrame clean_data is working on
    filtered_count, \* clean_data's filtered_count (original_count - len(df))
    log,         \* drop counts the run reports, by stage
    exp_deg_ret, \* value returned by _parse_exp_degree
    raw_str,     \* argument of SpiderFinal.clean_salary
    clean_ret,   \* value returned by SpiderFinal.clean_salary
    stage,       \* per record, the step of clean_data it has reached
    model,       \* SalaryPredictor.model
    saved,       \* whether data/salary_model.pkl has been written
    stdout       \* lines printed by main and train

vars == <<pc, salary_str, salary_ret, raw_text, city_ret, df_in, df,
          filtered_count, log, exp_deg_ret, raw_str, clean_ret, stage,
          model, saved, stdout>>

\* the state of SpiderFinal.clean_salary and of SalaryPredictor
spiderVars == <<raw_str, clean_ret>>

trainVars == <<model, saved, stdout>>

(***************************************************************************)
(* Bounds of the model.                                                    *)
(***************************************************************************)
MaxHyphen == 201   \* hyphenated tokens <a>-<b>K are drawn for a, b in 0..MaxHyphen
MaxRun == 4        \* every digit run of length 1..MaxRun is drawn as a fused token
MaxLines == 3      \* lines of a raw_text block
MaxBatch == 3      \* rows of a DataFrame

(***************************************************************************)
(* Python str and int primitives.                                          *)
(***************************************************************************)
DigitChars == <<"0", "1", "2", "3", "4", "5", "6", "7", "8", "9">>

Digit == {DigitChars[i] : i \in 1..10}

IsDigit(c) == c \in Digit

DigitVal(c) == (CHOOSE i \in 1..10 : DigitChars[i] = c) - 1

\* str.isspace: blank, tab, carriage return, ideographic space
IsSpace(c) == c \in {" ", "\t", "\r", "u3000"}

\* int(digits): leading zeros are dropped by the value
RECURSIVE ToInt(_)
ToInt(ds) ==
    IF ds = <<>> THEN 0
    ELSE ToInt(SubSeq(ds, 1, Len(ds) - 1)) * 10 + DigitVal(ds[Len(ds)])

\* str(n) for an int n >= 0: decimal digits, no leading zeros
RECURSIVE ToStr(_)
ToStr(n) ==
    IF n < 10 THEN <<DigitChars[n + 1]>>
    ELSE ToStr(n \div 10) \o <<DigitChars[(n % 10) + 1]>>

UpperLetters ==
    <<"A", "B", "C", "D", "E", "F", "G", "H", "I", "J", "K", "L", "M",
      "N", "O", "P", "Q", "R", "S", "T", "U", "V", "W", "X", "Y", "Z">>

LowerLetters ==
    <<"a", "b", "c", "d", "e", "f", "g", "h", "i", "j", "k", "l", "m",
      "n", "o", "p", "q", "r", "s", "t", "u", "v", "w", "x", "y", "z">>

UpperChar(c) ==
    IF \E k \in 1..26 : LowerLetters[k] = c
    THEN UpperLetters[CHOOSE k \in 1..26 : LowerLetters[k] = c]
    ELSE c

LowerChar(c) ==
    IF \E k \in 1..26 : UpperLetters[k] = c
    THEN LowerLetters[CHOOSE k \in 1..26 : UpperLetters[k] = c]
    ELSE c

lower(s) == [i \in 1..Len(s) |-> LowerChar(s[i])]

upper(s) == [i \in 1..Len(s) |-> UpperChar(s[i])]

RECURSIVE strip(_)
strip(s) ==
    IF s = <<>> THEN s
    ELSE IF IsSpace(s[1]) THEN strip(Tail(s))
    ELSE IF IsSpace(s[Len(s)]) THEN strip(SubSeq(s, 1, Len(s) - 1))
    ELSE s

\* sub in s (substring containment)
Contains(s, sub) ==
    \E i \in 1..(Len(s) - Len(sub) + 1) : \A j \in 1..Len(sub) : s[i + j - 1] = sub[j]

\* index one past the maximal run of digits that starts at i
RECURSIVE RunEnd(_, _)
RunEnd(s, i) == IF i <= Len(s) /\ IsDigit(s[i]) THEN RunEnd(s, i + 1) ELSE i

\* index of the first non-space character at or after i
RECURSIVE SkipSpace(_, _)
SkipSpace(s, i) == IF i <= Len(s) /\ IsSpace(s[i]) THEN SkipSpace(s, i + 1) ELSE i

(***************************************************************************)
(* Numbers.                                                                *)
(***************************************************************************)
Scale == 1000

Num(n) == n * Scale

NaN == 0 - 1

isna(x) == x = NaN

NaNTriple == <<NaN, NaN, NaN>>

\* pd.isna(salary_str) holds of a missing cell, which is not a str
NaNCell == <<"NaN">>

(***************************************************************************)
(* DataPipeline._parse_salary                                              *)
(***************************************************************************)
LargeMagnitude == 50      \* low > 50 or high > 50
BaseUnitThreshold == 1000 \* low > 1000
SanityLimit == 200        \* low > 200 or high > 200
FusedThreshold == 200     \* raw_val > 200

NoMatch == <<>>

\* Whether re.search(r'(\d+)\s*-\s*(\d+)', s) matches with group 1 starting at i.
\* \d+ is greedy and what follows it is no digit, so group 1 is the maximal
\* run of digits from i.
RangeAt(s, i) ==
    /\ IsDigit(s[i])
    /\ LET k == SkipSpace(s, RunEnd(s, i))
       IN /\ k <= Len(s)
          /\ s[k] = "-"
          /\ LET j == SkipSpace(s, k + 1)
             IN j <= Len(s) /\ IsDigit(s[j])

\* re.search(r'(\d+)\s*-\s*(\d+)', s): <<int(group 1), int(group 2)>> of the
\* leftmost match, or NoMatch
search_range(s) ==
    LET starts == {i \in 1..Len(s) : RangeAt(s, i)}
    IN IF starts = {} THEN NoMatch
       ELSE LET i == CHOOSE x \in starts : \A y \in starts : x <= y
                e == RunEnd(s, i)
                j == SkipSpace(s, SkipSpace(s, e) + 1)
            IN <<ToInt(SubSeq(s, i, e - 1)), ToInt(SubSeq(s, j, RunEnd(s, j) - 1))>>

\* re.findall(r'\d+', s): the first element, or NoMatch when the list is empty
first_digits(s) ==
    LET starts == {i \in 1..Len(s) : IsDigit(s[i])}
    IN IF starts = {} THEN NoMatch
       ELSE LET i == CHOOSE x \in starts : \A y \in starts : x <= y
            IN SubSeq(s, i, RunEnd(s, i) - 1)

\* return low * 1000, high * 1000, (low + high) * 500
salary_triple(low, high) == <<low * 1000, high * 1000, (low + high) * 500>>

\* guard_and_return with the limit itself rejected (>= for >)
guard_rejects_at_limit(low, high) ==
    IF low >= Num(SanityLimit) \/ high >= Num(SanityLimit) THEN NaNTriple
    ELSE IF low > high THEN salary_triple(high, low)
    ELSE salary_triple(low, high)

\* guard_and_return without the swap of a reversed range
guard_without_swap(low, high) ==
    IF low > Num(SanityLimit) \/ high > Num(SanityLimit) THEN NaNTriple
    ELSE salary_triple(low, high)

\* the safety check, the swap and the return (lines 121-126 and 151-159)
guard_and_return(low, high) ==
    IF low > Num(SanityLimit) \/ high > Num(SanityLimit) THEN NaNTriple
    ELSE IF low > high THEN salary_triple(high, low)
    ELSE salary_triple(low, high)

\* hyphen_range dividing by 1000 whenever a bound exceeds 50
hyphen_range_divides_above_50(m) ==
    LET low == Num(m[1])
        high == Num(m[2])
    IN IF low > Num(LargeMagnitude) \/ high > Num(LargeMagnitude)
       THEN guard_and_return(low \div 1000, high \div 1000)
       ELSE guard_and_return(low, high)

\* hyphen_range converting from 1000 on (>= for >)
hyphen_range_divides_from_1000(m) ==
    LET low == Num(m[1])
        high == Num(m[2])
        convert == (low > Num(LargeMagnitude) \/ high > Num(LargeMagnitude))
                   /\ low >= Num(BaseUnitThreshold)
    IN IF convert THEN guard_and_return(low \div 1000, high \div 1000)
       ELSE guard_and_return(low, high)

\* the branch of a token with a matched '<int> - <int>' (lines 108-126)
hyphen_range(m) ==
    LET low == Num(m[1])
        high == Num(m[2])
        convert == (low > Num(LargeMagnitude) \/ high > Num(LargeMagnitude))
                   /\ low > Num(BaseUnitThreshold)
    IN IF convert THEN guard_and_return(low \div 1000, high \div 1000)
       ELSE guard_and_return(low, high)

\* fused_split cutting a four-digit run after its first digit
fused_split_after_first(raw_val) ==
    IF raw_val > FusedThreshold
    THEN LET s_val == ToStr(raw_val)
         IN IF Len(s_val) \in {3, 4}
            THEN <<ToInt(SubSeq(s_val, 1, 1)), ToInt(SubSeq(s_val, 2, Len(s_val)))>>
            ELSE NoMatch
    ELSE <<raw_val, raw_val>>

\* the split of a fused run (lines 135-148): <<low, high>> or NoMatch
fused_split(raw_val) ==
    IF raw_val > FusedThreshold
    THEN LET s_val == ToStr(raw_val)
         IN IF Len(s_val) = 4
            THEN <<ToInt(SubSeq(s_val, 1, 2)), ToInt(SubSeq(s_val, 3, 4))>>
            ELSE IF Len(s_val) = 3
            THEN <<ToInt(SubSeq(s_val, 1, 1)), ToInt(SubSeq(s_val, 2, 3))>>
            ELSE NoMatch
    ELSE <<raw_val, raw_val>>

\* the branch of a token without a matched range (lines 129-159)
fused_digits(s) ==
    LET nums == first_digits(s)
    IN IF nums = NoMatch THEN NaNTriple
       ELSE LET lh == fused_split(ToInt(nums))
            IN IF lh = NoMatch THEN NaNTriple
               ELSE guard_and_return(Num(lh[1]), Num(lh[2]))

_parse_salary(cell) ==
    IF cell = NaNCell THEN NaNTriple
    ELSE LET s == strip(upper(cell))
         IN IF Contains(s, <<"-">>) /\ search_range(s) /= NoMatch
            THEN hyphen_range(search_range(s))
            ELSE fused_digits(s)

(***************************************************************************)
(* Salary cells the parser is run on.                                      *)
(***************************************************************************)
OtherTokens ==
    { NaNCell,
      <<>>,
      <<"shuang", "xiu">>,
      <<"mian", "yi">>,
      <<"5", "-">>,
      <<"-", "5">>,
      <<"-">>,
      <<"1", ".", "5", "-", "2", ".", "5", "K">>,
      <<"1", ".", "0", "0", "1", "-", "1", ".", "5", "K">>,
      <<"0", "0", "3", "0", "0">>,
      <<"1", "2", "3", "4", "5", "K">>,
      <<"1", "2", " ", "-", " ", "1", "5", "k">>,
      <<" ", "1", "5", "-", "2", "5", "K", " ">>,
      <<"1", " ", "2", "-", "3">>,
      <<"2", "1", "4", "0", " ", "K">>,
      <<"2", "1", "-", "4", "0", " ", "K">>,
      <<"1", "5", "-", "2", "5", "K", "dot", "1", "3", "xin">>,
      <<"1", "5", "K", "dot", "1", "3", "xin">>,
      <<"x", "-", "y", "8", "1", "2", "K">>,
      <<"2", "0", "1", "-", "x">> }

\* amounts written in base currency units, and the values around the thresholds
BaseUnitVals ==
    {0, 8, 50, 51, 200, 201, 999, 1000, 1001, 1500, 2000, 2500, 8000, 15000,
     25000, 60000, 200000, 200001, 300000}

\* '<a>-<b>K'
RangeToken(a, b) == ToStr(a) \o <<"-">> \o ToStr(b) \o <<"K">>

\* whether cell is one of the tokens the parser is run on
IsSalaryInput(cell) ==
       \* '<a>-<b>K' for all a, b up to MaxHyphen: working units, both orders
    \/ \E a, b \in 0..MaxHyphen : cell = RangeToken(a, b)
       \* '<a>-<b>' in base currency units
    \/ \E a, b \in BaseUnitVals : cell = ToStr(a) \o <<"-">> \o ToStr(b)
       \* '<digits>K' for every digit run of length 1..MaxRun, leading zeros
       \* included, and 'XYZW K' with a space before the unit letter
    \/ \E n \in 1..MaxRun : \E d \in [1..n -> Digit] :
          \/ cell = d \o <<"K">>
          \/ n = 4 /\ cell = d \o <<" ", "K">>
       \* 'XY-ZWK' written with two digits on each side, leading zeros included
    \/ \E x \in {"0", "1", "2", "9"}, y \in Digit, z \in {"0", "1", "5", "9"}, w \in Digit :
          cell = <<x, y, "-", z, w, "K">>
    \/ cell \in OtherTokens

Unset == <<>>

\* self.model = None
None == "None"

\* no call of clean_salary
NoSpider == raw_str = Unset /\ clean_ret = Unset

\* a SalaryPredictor as constructed, and nothing printed
NoTrain == model = None /\ saved = FALSE /\ stdout = <<>>

(***************************************************************************)
(* The parser as a call: the cell is handed over, the triple comes back.   *)
(***************************************************************************)
InitSalary ==
    /\ pc = "_parse_salary"
    /\ IsSalaryInput(salary_str)
    /\ salary_ret = Unset
    /\ raw_text = Unset
    /\ city_ret = Unset
    /\ df_in = Unset
    /\ df = Unset
    /\ filtered_count = 0
    /\ log = Unset
    /\ exp_deg_ret = Unset
    /\ NoSpider
    /\ stage = Unset
    /\ NoTrain

ParseSalary ==
    /\ pc = "_parse_salary"
    /\ salary_ret' = _parse_salary(salary_str)
    /\ pc' = "salary_returned"
    /\ UNCHANGED <<salary_str, raw_text, city_ret, df_in, df, filtered_count, log,
                   exp_deg_ret, spiderVars, stage, trainVars>>

SalarySpec == InitSalary /\ [][ParseSalary]_vars

(***************************************************************************)
(* DataPipeline._parse_exp_degree                                          *)
(***************************************************************************)
\* whether re.search(r'(\d+)-(\d+)nian', text) matches with group 1 from i
ExpRangeAt(text, i) ==
    /\ IsDigit(text[i])
    /\ LET e == RunEnd(text, i)
       IN /\ e < Len(text)
          /\ text[e] = "-"
          /\ IsDigit(text[e + 1])
          /\ LET f == RunEnd(text, e + 1)
             IN f <= Len(text) /\ text[f] = "nian"

\* re.search(r'(\d+)-(\d+)nian', text): <<group 1, group 2>> as ints, or NoMatch
exp_range_search(text) ==
    LET starts == {i \in 1..Len(text) : ExpRangeAt(text, i)}
    IN IF starts = {} THEN NoMatch
       ELSE LET i == CHOOSE x \in starts : \A y \in starts : x <= y
                e == RunEnd(text, i)
            IN <<ToInt(SubSeq(text, i, e - 1)),
                 ToInt(SubSeq(text, e + 1, RunEnd(text, e + 1) - 1))>>

\* re.search(r'(\d+)nian', text): <<group 1>> as an int, or NoMatch
exp_single_search(text) ==
    LET starts == {i \in 1..Len(text) :
                      /\ IsDigit(text[i])
                      /\ RunEnd(text, i) <= Len(text)
                      /\ text[RunEnd(text, i)] = "nian"}
    IN IF starts = {} THEN NoMatch
       ELSE LET i == CHOOSE x \in starts : \A y \in starts : x <= y
            IN <<ToInt(SubSeq(text, i, RunEnd(text, i) - 1))>>

YingJie == <<"ying", "jie">>
ZaiXiao == <<"zai", "xiao">>
XueLiBuXian == <<"xue", "li", "bu", "xian">>
XueLiYaoQiu == <<"xue", "li", "yao", "qiu">>
BuXian == <<"bu", "xian">>
BoShi == <<"bo", "shi">>
ShuoShi == <<"shuo", "shi">>
BenKe == <<"ben", "ke">>
DaZhuan == <<"da", "zhuan">>

\* exp_years_of with the entry-level wording tested before the range
exp_years_entry_first(text) ==
    IF Contains(text, YingJie) \/ Contains(text, ZaiXiao) THEN Num(1) \div 2
    ELSE IF exp_range_search(text) /= NoMatch
    THEN (Num(exp_range_search(text)[1]) + Num(exp_range_search(text)[2])) \div 2
    ELSE IF exp_single_search(text) /= NoMatch THEN Num(exp_single_search(text)[1])
    ELSE 0

\* lines 167-173
exp_years_of(text) ==
    IF exp_range_search(text) /= NoMatch
    THEN (Num(exp_range_search(text)[1]) + Num(exp_range_search(text)[2])) \div 2
    ELSE IF Contains(text, YingJie) \/ Contains(text, ZaiXiao) THEN Num(1) \div 2
    ELSE IF exp_single_search(text) /= NoMatch THEN Num(exp_single_search(text)[1])
    ELSE 0

\* degree_of with the degree keywords tested before the no-degree phrases
degree_of_keyword_first(text) ==
    IF Contains(text, BoShi) THEN 4
    ELSE IF Contains(text, ShuoShi) THEN 3
    ELSE IF Contains(text, BenKe) THEN 2
    ELSE IF Contains(text, DaZhuan) THEN 1
    ELSE 0

\* lines 176-185
degree_of(text) ==
    IF \/ Contains(text, XueLiBuXian)
       \/ Contains(text, XueLiYaoQiu) /\ Contains(text, BuXian)
    THEN 0
    ELSE IF Contains(text, BoShi) THEN 4
    ELSE IF Contains(text, ShuoShi) THEN 3
    ELSE IF Contains(text, BenKe) THEN 2
    ELSE IF Contains(text, DaZhuan) THEN 1
    ELSE 0

\* returns <<exp, deg>>
_parse_exp_degree(text) ==
    IF text = NaNCell THEN <<0, 0>>
    ELSE <<exp_years_of(text), degree_of(text)>>

(***************************************************************************)
(* Texts the experience/degree extractor is run on: up to MaxPieces pieces *)
(* written one after the other (a phrase may form across two pieces), the  *)
(* listing line '3-5nian jingyan, benke yishang', or a missing cell.       *)
(***************************************************************************)
MaxPieces == 3

ExpPieces ==
    { <<"3", "-", "5", "nian">>, <<"1", "-", "2", "nian">>, <<"5", "nian">>,
      YingJie, ZaiXiao, XueLiBuXian, XueLiYaoQiu, BuXian,
      BoShi, ShuoShi, BenKe, DaZhuan,
      <<"comma">>, <<"3", "-">>, <<"7">>, <<"nian">>, <<"xue", "li">> }

ExpExample ==
    <<"3", "-", "5", "nian", "jing_exp", "yan", "comma", "ben", "ke", "yi", "shang">>

RECURSIVE concat_pieces(_)
concat_pieces(ps) ==
    IF ps = <<>> THEN <<>> ELSE Head(ps) \o concat_pieces(Tail(ps))

IsExpInput(text) ==
    \/ text = NaNCell
    \/ text = ExpExample
    \/ \E n \in 0..MaxPieces : \E ps \in [1..n -> ExpPieces] : text = concat_pieces(ps)

InitExpDegree ==
    /\ pc = "_parse_exp_degree"
    /\ IsExpInput(raw_text)
    /\ exp_deg_ret = Unset
    /\ salary_str = Unset
    /\ salary_ret = Unset
    /\ city_ret = Unset
    /\ df_in = Unset
    /\ df = Unset
    /\ filtered_count = 0
    /\ log = Unset
    /\ NoSpider
    /\ stage = Unset
    /\ NoTrain

ParseExpDegree ==
    /\ pc = "_parse_exp_degree"
    /\ exp_deg_ret' = _parse_exp_degree(raw_text)
    /\ pc' = "exp_degree_returned"
    /\ UNCHANGED <<salary_str, salary_ret, raw_text, city_ret, df_in, df,
                   filtered_count, log, spiderVars, stage, trainVars>>

ExpDegreeSpec == InitExpDegree /\ [][ParseExpDegree]_vars

(***************************************************************************)
(* Reading a token back, for the statements about the parser: these do not *)
(* use the parser's own matching.                                          *)
(***************************************************************************)
AllDigits(s) == s /= <<>> /\ \A i \in 1..Len(s) : IsDigit(s[i])

Returned == pc = "salary_returned"

Accepted(t) == t /= NaNTriple

\* the triple of the working-unit range lo..hi
TripleOf(lo, hi) == <<Num(lo * 1000), Num(hi * 1000), Num((lo + hi) * 500)>>

\* s is '<a>-<b>K' for integers a, b written without leading zeros
IsRangeToken(s) ==
    /\ Len(s) >= 4
    /\ s[Len(s)] = "K"
    /\ \E h \in 2..(Len(s) - 2) :
          /\ s[h] = "-"
          /\ AllDigits(SubSeq(s, 1, h - 1))
          /\ AllDigits(SubSeq(s, h + 1, Len(s) - 1))
          /\ s = RangeToken(ToInt(SubSeq(s, 1, h - 1)),
                            ToInt(SubSeq(s, h + 1, Len(s) - 1)))

HyphenAt(s) == CHOOSE h \in 1..Len(s) : s[h] = "-"

RangeLow(s) == ToInt(SubSeq(s, 1, HyphenAt(s) - 1))

RangeHigh(s) == ToInt(SubSeq(s, HyphenAt(s) + 1, Len(s) - 1))

\* s is '<n>K' for an integer n written without leading zeros
IsSingleToken(s) ==
    /\ Len(s) >= 2
    /\ s[Len(s)] = "K"
    /\ AllDigits(SubSeq(s, 1, Len(s) - 1))
    /\ s = ToStr(ToInt(SubSeq(s, 1, Len(s) - 1))) \o <<"K">>

SingleValue(s) == ToInt(SubSeq(s, 1, Len(s) - 1))

\* s is 'XYZWK' or 'XYZW K', four digits
IsFused4(s) ==
    /\ Len(s) \in {5, 6}
    /\ AllDigits(SubSeq(s, 1, 4))
    /\ SubSeq(s, 5, Len(s)) \in {<<"K">>, <<" ", "K">>}

\* 'XY-ZWK' (or 'XY-ZW K') for the fused token s
Hyphenated4(s) == SubSeq(s, 1, 2) \o <<"-">> \o SubSeq(s, 3, Len(s))

XY(s) == ToInt(SubSeq(s, 1, 2))

ZW(s) == ToInt(SubSeq(s, 3, 4))

(***************************************************************************)
(* C1  For every token '<a>-<b>K' with a <= b <= 200 the parser returns    *)
(* (a*1000, b*1000, (a+b)*500); '15-25K' gives (15000, 25000, 20000).      *)
(***************************************************************************)
C1_RangeTriple ==
    Returned =>
        /\ (IsRangeToken(salary_str)
              /\ RangeLow(salary_str) <= RangeHigh(salary_str)
              /\ RangeHigh(salary_str) <= 200)
           => salary_ret = TripleOf(RangeLow(salary_str), RangeHigh(salary_str))
        /\ salary_str = <<"1", "5", "-", "2", "5", "K">>
           => salary_ret = <<Num(15000), Num(25000), Num(20000)>>

\* a range above the large-magnitude threshold, returned unconverted
C1_Witness ==
    /\ Returned
    /\ salary_str = RangeToken(60, 200)
    /\ salary_ret = <<Num(60000), Num(200000), Num(130000)>>

C3_Original ==
    (Returned /\ IsFused4(salary_str) /\ XY(salary_str) <= ZW(salary_str))
    => salary_ret = _parse_salary(Hyphenated4(salary_str))

(***************************************************************************)
(* C3 amended: for every four-digit fused token 'XYZW K' whose integer     *)
(* value exceeds 200 and with XY <= ZW, the parser returns what it returns *)
(* for 'XY-ZW K', which is the triple of XY..ZW; '2140K' gives             *)
(* (21000, 40000, 30500).  A four-digit token whose value is at most 200   *)
(* (0000 to 0200) is not split: it is returned as that single value.       *)
(***************************************************************************)
C3_SplitThenParse ==
    Returned =>
        /\ (IsFused4(salary_str)
              /\ ToInt(SubSeq(salary_str, 1, 4)) > 200
              /\ XY(salary_str) <= ZW(salary_str))
           => /\ salary_ret = _parse_salary(Hyphenated4(salary_str))
              /\ salary_ret = TripleOf(XY(salary_str), ZW(salary_str))
        /\ (IsFused4(salary_str) /\ ToInt(SubSeq(salary_str, 1, 4)) <= 200)
           => salary_ret = TripleOf(ToInt(SubSeq(salary_str, 1, 4)),
                                    ToInt(SubSeq(salary_str, 1, 4)))
        /\ salary_str = <<"2", "1", "4", "0", "K">>
           => salary_ret = <<Num(21000), Num(40000), Num(30500)>>

C3_Witness ==
    /\ Returned
    /\ salary_str = <<"2", "1", "4", "0", "K">>
    /\ salary_ret = _parse_salary(<<"2", "1", "-", "4", "0", "K">>)
    /\ salary_ret = <<Num(21000), Num(40000), Num(30500)>>

(***************************************************************************)
(* C4  The parser returns either three absent fields or three present      *)
(* fields with min <= max and avg = (min + max) / 2, never a partial       *)
(* result; the reversed range '25-15K' is returned swapped.                *)
(***************************************************************************)
C4_AllOrNothing ==
    Returned =>
        /\ Len(salary_ret) = 3
        /\ \/ \A i \in 1..3 : isna(salary_ret[i])
           \/ /\ \A i \in 1..3 : ~isna(salary_ret[i]) /\ salary_ret[i] >= 0
              /\ salary_ret[1] <= salary_ret[2]
              /\ 2 * salary_ret[3] = salary_ret[1] + salary_ret[2]
        /\ salary_str = <<"2", "5", "-", "1", "5", "K">>
           => salary_ret = <<Num(15000), Num(25000), Num(20000)>>

C4_Witness ==
    /\ Returned
    /\ salary_str = <<"2", "5", "-", "1", "5", "K">>
    /\ salary_ret = <<Num(15000), Num(25000), Num(20000)>>

(***************************************************************************)
(* The canonical string form '<l/1000>-<h/1000>K' of an accepted triple.   *)
(* A whole number of working units is written as an integer, any other     *)
(* with its decimals ('1.5').                                              *)
(***************************************************************************)
RECURSIVE StripZeros(_)
StripZeros(ds) ==
    IF ds /= <<>> /\ ds[Len(ds)] = "0" THEN StripZeros(SubSeq(ds, 1, Len(ds) - 1))
    ELSE ds

\* k is a number of working units in fixed point
FormatK(k) ==
    IF k % Scale = 0 THEN ToStr(k \div Scale)
    ELSE ToStr(k \div Scale) \o <<".">>
         \o StripZeros(<<DigitChars[((k % Scale) \div 100) + 1],
                         DigitChars[(((k % Scale) \div 10) % 10) + 1],
                         DigitChars[(k % 10) + 1]>>)

Canonical(t) == FormatK(t[1] \div 1000) \o <<"-">> \o FormatK(t[2] \div 1000) \o <<"K">>

(***************************************************************************)
(* C5  Re-parsing the canonical string form of an accepted triple returns  *)
(* the identical triple, also for a token whose bounds were divided by     *)
(* 1000.                                                                   *)
(***************************************************************************)
C5_Idempotent ==
    (Returned /\ Accepted(salary_ret))
    => _parse_salary(Canonical(salary_ret)) = salary_ret

(***************************************************************************)
(* DataPipeline._extract_city_smart                                        *)
(***************************************************************************)
\* s.split(sep) for a one-character sep: the pieces, in order
\* index of the first sep at or after i, or Len(s) + 1
RECURSIVE FindChar(_, _, _)
FindChar(s, sep, i) ==
    IF i > Len(s) \/ s[i] = sep THEN i ELSE FindChar(s, sep, i + 1)

RECURSIVE SplitFrom(_, _, _)
SplitFrom(s, sep, i) ==
    LET e == FindChar(s, sep, i)
    IN IF e > Len(s) THEN <<SubSeq(s, i, Len(s))>>
       ELSE <<SubSeq(s, i, e - 1)>> \o SplitFrom(s, sep, e + 1)

split(s, sep) == SplitFrom(s, sep, 1)

Unknown == <<"wei", "zhi">>

target_cities ==
    << <<"nan", "jing">>, <<"bei", "jing">>, <<"shang", "hai">>,
       <<"guang", "zhou">>, <<"shen", "zhen">>, <<"hang", "zhou">>,
       <<"cheng", "du">>, <<"wu", "han">>, <<"xi", "an">>, <<"su", "zhou">>,
       <<"chang", "sha">>, <<"chong", "qing">>, <<"he", "fei">> >>

company_keywords ==
    << <<"gong", "si">>, <<"ke", "ji_tech">>, <<"ji_group", "tuan">>,
       <<"yin", "hang_bank">>, <<"ruan", "jian">>, <<"fu", "wu_serve">>,
       <<"zhong", "xin">>, <<"da", "xue">>, <<"chang_factory">>, <<"ju">> >>

\* line.split('·')[0]
dot_part1(line) == split(line, "dot")[1]

\* any(city in part1 for city in target_cities)
any_city_in(part1) ==
    \E k \in 1..Len(target_cities) : Contains(part1, target_cities[k])

\* the first city of target_cities, in list order, that the line contains
matched_city(line) ==
    LET hits == {k \in 1..Len(target_cities) : Contains(line, target_cities[k])}
    IN IF hits = {} THEN NoMatch
       ELSE target_cities[CHOOSE k \in hits : \A j \in hits : k <= j]

is_company(line) ==
    \E k \in 1..Len(company_keywords) : Contains(line, company_keywords[k])

\* dot_rule without the check that a city stands before the dot
dot_rule_unchecked(line) == Contains(line, <<"dot">>)

\* rule 1 (lines 65-69): whether the line returns its text before the dot
dot_rule(line) == Contains(line, <<"dot">>) /\ any_city_in(dot_part1(line))

\* rule 2 (lines 72-92): whether the line returns its matched city
city_rule(line) ==
    /\ matched_city(line) /= NoMatch
    /\ \/ Len(line) <= 3 /\ matched_city(line) = line
       \/ ~is_company(line)

\* the body of the loop for one stripped, non-blank line: what it returns,
\* or NoMatch when the scan goes on
line_result(line) ==
    IF dot_rule(line) THEN dot_part1(line)
    ELSE IF city_rule(line) THEN matched_city(line)
    ELSE NoMatch

\* for line in reversed(lines), from lines[i] upwards
RECURSIVE scan_reversed(_, _)
scan_reversed(lines, i) ==
    IF i = 0 THEN Unknown
    ELSE LET line == strip(lines[i])
         IN IF line = <<>> THEN scan_reversed(lines, i - 1)
            ELSE IF line_result(line) /= NoMatch THEN line_result(line)
            ELSE scan_reversed(lines, i - 1)

_extract_city_smart(text) ==
    IF text = NaNCell THEN Unknown
    ELSE LET lines == split(text, "\n")
         IN scan_reversed(lines, Len(lines))

(***************************************************************************)
(* Text blocks the extractor is run on.                                    *)
(***************************************************************************)
LinePool ==
    { <<>>,
      <<" ", "u3000">>,
      <<"nan", "jing">>,
      <<" ", "shang", "hai", " ", "\r">>,
      <<"nan", "jing", "dot", "jiang", "ning", "qu">>,
      <<"A", "B", "C", "ke", "ji_tech", "gong", "si">>,
      <<"nan", "jing", "ke", "ji_tech", "gong", "si">>,
      <<"bei", "jing", "yin", "hang_bank", "dot", "zong", "bu">>,
      <<"jiang", "ning", "qu", "dot", "nan", "jing">>,
      <<"shuang", "xiu">>,
      <<"gong_work", "zuo", "di", "dian", "bei", "jing">>,
      <<"bei", "jing", "chang_factory">>,
      <<"bei", "jing", "nan", "jing">>,
      <<"ben", "ke", "yi", "shang">>,
      <<"ke", "ji_tech", "dot", "hang", "zhou", "gong", "si">>,
      <<"shen", "zhen", "dot">>,
      <<"dot", "cheng", "du">>,
      <<"su", "zhou", "shi_city", "dot", "yuan", "qu">>,
      <<"he", "fei", "da", "xue">> }

\* '\n'.join(lines)
RECURSIVE join_lines(_)
join_lines(lines) ==
    IF Len(lines) = 1 THEN lines[1]
    ELSE lines[1] \o <<"\n">> \o join_lines(Tail(lines))

\* whether text is a block of 1..MaxLines lines of LinePool, or a missing cell
IsCityInput(text) ==
    \/ text = NaNCell
    \/ \E n \in 1..MaxLines : \E ls \in [1..n -> LinePool] : text = join_lines(ls)

InitCity ==
    /\ pc = "_extract_city_smart"
    /\ IsCityInput(raw_text)
    /\ city_ret = Unset
    /\ salary_str = Unset
    /\ salary_ret = Unset
    /\ df_in = Unset
    /\ df = Unset
    /\ filtered_count = 0
    /\ log = Unset
    /\ exp_deg_ret = Unset
    /\ NoSpider
    /\ stage = Unset
    /\ NoTrain

ExtractCity ==
    /\ pc = "_extract_city_smart"
    /\ city_ret' = _extract_city_smart(raw_text)
    /\ pc' = "city_returned"
    /\ UNCHANGED <<raw_text, salary_str, salary_ret, df_in, df, filtered_count, log,
                   exp_deg_ret, spiderVars, stage, trainVars>>

CitySpec == InitCity /\ [][ExtractCity]_vars

(***************************************************************************)
(* Reading a text block, for the statements about the extractor.           *)
(***************************************************************************)
CityReturned == pc = "city_returned"

CitySet == {target_cities[k] : k \in 1..Len(target_cities)}

KeywordSet == {company_keywords[k] : k \in 1..Len(company_keywords)}

HasCity(s) == \E c \in CitySet : Contains(s, c)

HasKeyword(s) == \E kw \in KeywordSet : Contains(s, kw)

\* the text of s before its first middle dot (all of s when it has none)
BeforeDot(s) == SubSeq(s, 1, FindChar(s, "dot", 1) - 1)

\* the stripped lines of a block, top to bottom
LinesOf(text) ==
    LET ls == split(text, "\n") IN [i \in 1..Len(ls) |-> strip(ls[i])]

\* a line on which the scan stops
Accepting(s) ==
    /\ s /= <<>>
    /\ \/ Contains(s, <<"dot">>) /\ HasCity(BeforeDot(s))
       \/ HasCity(s) /\ (s \in CitySet \/ ~HasKeyword(s))

\* the greatest element of a non-empty set of line numbers: the line lowest
\* in the text, which the reverse scan meets first
Lowest(S) == CHOOSE i \in S : \A j \in S : j <= i

(***************************************************************************)
(* C8  The extractor is total and never returns an empty or null city: it  *)
(* returns a non-empty string for every input, and the sentinel 'unknown'  *)
(* exactly when the reverse scan finds no accepted line.                   *)
(***************************************************************************)
C8_CityNeverEmpty ==
    CityReturned =>
        /\ city_ret /= <<>>
        /\ city_ret /= NaNCell
        /\ city_ret = Unknown
           <=> \/ raw_text = NaNCell
               \/ \A i \in 1..Len(LinesOf(raw_text)) : ~Accepting(LinesOf(raw_text)[i])

\* blank-only lines
C8_Witness ==
    /\ CityReturned
    /\ raw_text = <<" ", "u3000", "\n", "\n", " ", "u3000">>
    /\ city_ret = Unknown

(***************************************************************************)
(* C9  Lines are examined bottom-up and the first accepting line decides;  *)
(* a line with a city name and a company keyword is skipped, so for every  *)
(* block in which the lines with a city name are company-keyword lines and *)
(* lines that are a bare city name alone, the result is the bare city      *)
(* name; and ['ABC keji gongsi', 'Nanjing . Jiangning qu'] gives Nanjing.  *)
(***************************************************************************)
C9_CompanyLineSkipped ==
    (CityReturned /\ raw_text /= NaNCell) =>
        LET ls == LinesOf(raw_text)
            company == {i \in 1..Len(ls) : HasCity(ls[i]) /\ HasKeyword(ls[i])}
            bare == {i \in 1..Len(ls) : ls[i] \in CitySet}
            withCity == {i \in 1..Len(ls) : HasCity(ls[i])}
            accepting == {i \in 1..Len(ls) : Accepting(ls[i])}
        IN /\ accepting /= {} => Contains(ls[Lowest(accepting)], city_ret)
           /\ (company /= {} /\ bare /= {} /\ withCity = company \cup bare)
              => city_ret = ls[Lowest(bare)]
           /\ raw_text = <<"A", "B", "C", "ke", "ji_tech", "gong", "si", "\n",
                           "nan", "jing", "dot", "jiang", "ning", "qu">>
              => city_ret = <<"nan", "jing">>

(***************************************************************************)
(* C10  The value returned is always one of the known city names or the    *)
(* sentinel 'unknown', also when the accepted line has text other than the *)
(* city name before its middle dot.                                        *)
(***************************************************************************)
C10_KnownCityOrUnknown ==
    CityReturned => city_ret \in CitySet \cup {Unknown}

(***************************************************************************)
(* DataPipeline.clean_data, one action per numbered step of the method.    *)
(* A DataFrame is the sequence of its rows; a row is a record with its     *)
(* index label and its columns.                                            *)
(***************************************************************************)
PlausibleLow == 2000    \* df['avg_salary'] > 2000
PlausibleHigh == 50000  \* df['avg_salary'] < 50000

\* df.dropna(subset=['avg_salary'])
notna_avg_salary(row) == ~isna(row.avg_salary)

dropna_avg_salary(frame) == SelectSeq(frame, notna_avg_salary)

\* in_band with the two ends of the band included
in_band_inclusive(row) ==
    row.avg_salary <= Num(PlausibleHigh) /\ row.avg_salary >= Num(PlausibleLow)

\* (df['avg_salary'] < 50000) & (df['avg_salary'] > 2000)
in_band(row) ==
    row.avg_salary < Num(PlausibleHigh) /\ row.avg_salary > Num(PlausibleLow)

\* filter_band that also drops a row whose salary cell repeats an earlier row's
filter_band_drops_repeats(frame) ==
    LET keep == {i \in 1..Len(frame) :
                    /\ in_band(frame[i])
                    /\ \A j \in 1..(i - 1) : frame[j].salary /= frame[i].salary}
    IN [k \in 1..Cardinality(keep) |->
           frame[CHOOSE i \in keep : Cardinality({j \in keep : j <= i}) = k]]

filter_band(frame) == SelectSeq(frame, in_band)

\* step 1 (lines 195-198)
city_fix(row) ==
    LET real_city == _extract_city_smart(row.raw_text)
    IN [row EXCEPT !.city = real_city]
       @@ [real_city |-> real_city, city_clean |-> real_city]

\* step 2 (lines 201-202), one row
salary_columns(row) ==
    LET feats == _parse_salary(row.salary)
    IN row @@ [min_salary |-> feats[1], max_salary |-> feats[2],
               avg_salary |-> feats[3]]

\* step 3 (lines 215-216), one row
exp_degree_columns(row) ==
    LET exp_deg == _parse_exp_degree(row.raw_text)
    IN row @@ [exp_years |-> exp_deg[1], degree_value |-> exp_deg[2]]

\* the line logged at line 212
filtered_message(n) == <<"plausibility", n>>

CleanCity ==
    /\ pc = "clean_data"
    /\ df' = [i \in 1..Len(df) |-> city_fix(df[i])]
    /\ pc' = "clean_data:salary"
    /\ UNCHANGED <<salary_str, salary_ret, raw_text, city_ret, df_in,
                   filtered_count, log,
                   exp_deg_ret, spiderVars, stage, trainVars>>

\* zip(*salary_feats) of an empty Series yields nothing to unpack: ValueError
CleanSalary ==
    /\ pc = "clean_data:salary"
    /\ IF Len(df) = 0
       THEN /\ pc' = "ValueError"
            /\ UNCHANGED df
       ELSE /\ df' = dropna_avg_salary([i \in 1..Len(df) |-> salary_columns(df[i])])
            /\ pc' = "clean_data:filter"
    /\ UNCHANGED <<salary_str, salary_ret, raw_text, city_ret, df_in,
                   filtered_count, log,
                   exp_deg_ret, spiderVars, stage, trainVars>>

CleanFilter ==
    /\ pc = "clean_data:filter"
    /\ LET original_count == Len(df)
           kept == filter_band(df)
       IN /\ df' = kept
          /\ filtered_count' = original_count - Len(kept)
          /\ log' = IF original_count - Len(kept) > 0
                    THEN Append(log, filtered_message(original_count - Len(kept)))
                    ELSE log
    /\ pc' = "clean_data:exp_degree"
    /\ UNCHANGED <<salary_str, salary_ret, raw_text, city_ret, df_in,
                   exp_deg_ret, spiderVars, stage, trainVars>>

\* zip(*exp_deg) of an empty Series yields nothing to unpack: ValueError
CleanExpDegree ==
    /\ pc = "clean_data:exp_degree"
    /\ IF Len(df) = 0
       THEN /\ pc' = "ValueError"
            /\ UNCHANGED df
       ELSE /\ df' = [i \in 1..Len(df) |-> exp_degree_columns(df[i])]
            /\ pc' = "clean_data:returned"
    /\ UNCHANGED <<salary_str, salary_ret, raw_text, city_ret, df_in,
                   filtered_count, log,
                   exp_deg_ret, spiderVars, stage, trainVars>>

(***************************************************************************)
(* The DataFrames clean_data is run on.                                    *)
(***************************************************************************)
CardText ==
    <<"A", "B", "C", "ke", "ji_tech", "gong", "si", "\n",
      "3", "-", "5", "nian", "jing_exp", "yan", "comma", "ben", "ke", "yi", "shang", "\n",
      "nan", "jing", "dot", "jiang", "ning", "qu">>

GraduateText ==
    <<"ying", "jie", " ", "xue", "li", "bu", "xian", " ", "ben", "ke", "\n",
      "bei", "jing", "yin", "hang_bank", "dot", "zong", "bu">>

NoEvidenceText == <<"shuang", "xiu">>

\* <<salary, raw_text>> of the scraped records
RecordPool ==
    { << <<"1", "5", "-", "2", "5", "K">>, CardText >>,
      << <<"shuang", "xiu">>, CardText >>,
      << NaNCell, NoEvidenceText >>,
      << <<"5", "0", "-", "7", "0", "K">>, CardText >>,
      << <<"2", "1", "4", "0", "K">>, NaNCell >>,
      << <<"5", "0", "K">>, NoEvidenceText >>,
      << <<"2", "K">>, GraduateText >>,
      << <<"2", "5", "-", "1", "5", "K">>, GraduateText >>,
      << <<"1", "5", "0", "0", "-", "2", "5", "0", "1">>, CardText >> }

ScrapedRow(i, rec) ==
    [index |-> i, title |-> <<"shu", "ju", "fen", "xi">>, salary |-> rec[1],
     raw_text |-> rec[2], city |-> <<"nan", "jing", "ke", "ji_tech">>]

InitClean ==
    /\ pc = "clean_data"
    /\ \E n \in 0..MaxBatch : \E recs \in [1..n -> RecordPool] :
          df_in = [i \in 1..n |-> ScrapedRow(i, recs[i])]
    /\ df = df_in
    /\ filtered_count = 0
    /\ log = <<>>
    /\ salary_str = Unset
    /\ salary_ret = Unset
    /\ raw_text = Unset
    /\ city_ret = Unset
    /\ exp_deg_ret = Unset
    /\ NoSpider
    /\ stage = Unset
    /\ NoTrain

CleanNext == CleanCity \/ CleanSalary \/ CleanFilter \/ CleanExpDegree

CleanSpec == InitClean /\ [][CleanNext]_vars

(***************************************************************************)
(* DataPipeline.feature_engineering and DataPipeline.run: clean_data, then *)
(* the skill flags of the rows it returned.                                *)
(***************************************************************************)
skills ==
    << <<"P", "y", "t", "h", "o", "n">>, <<"S", "Q", "L">>,
       <<"E", "x", "c", "e", "l">>, <<"T", "a", "b", "l", "e", "a", "u">>,
       <<"P", "o", "w", "e", "r", "B", "I">>, <<"S", "p", "a", "r", "k">>,
       <<"H", "a", "d", "o", "o", "p">>,
       <<"M", "a", "c", "h", "i", "n", "e", " ", "L", "e", "a", "r", "n", "i", "n", "g">>,
       <<"J", "a", "v", "a">> >>

\* f'has_{skill}', in the order of skills
has_columns ==
    <<"has_Python", "has_SQL", "has_Excel", "has_Tableau", "has_PowerBI",
      "has_Spark", "has_Hadoop", "has_Machine Learning", "has_Java">>

\* (df['title'] + ' ' + df['raw_text']).fillna('').str.lower(), one row: the
\* sum is missing when one of the two cells is
text_data(row) ==
    IF row.title = NaNCell \/ row.raw_text = NaNCell THEN <<>>
    ELSE lower(row.title \o <<" ">> \o row.raw_text)

\* 1 if skill.lower() in x else 0, for every skill
skill_flags(row) ==
    [c \in {has_columns[k] : k \in 1..Len(has_columns)} |->
        LET k == CHOOSE j \in 1..Len(has_columns) : has_columns[j] = c
        IN IF Contains(text_data(row), lower(skills[k])) THEN 1 ELSE 0]

feature_engineering(frame) ==
    [i \in 1..Len(frame) |-> frame[i] @@ skill_flags(frame[i])]

\* run(), line 234 after line 233
FeatureEngineering ==
    /\ pc = "clean_data:returned"
    /\ df' = feature_engineering(df)
    /\ pc' = "feature_engineering:returned"
    /\ UNCHANGED <<salary_str, salary_ret, raw_text, city_ret, df_in,
                   filtered_count, log, exp_deg_ret, spiderVars, stage, trainVars>>

SkillText ==
    <<"shu_familiar", "xi_know", "s", "q", "l", "he", "J", "a", "v", "a", "S", "c", "r", "i", "p", "t", "\n",
      "nan", "jing", "dot", "jiang", "ning", "qu">>

LearningText ==
    <<"L", "e", "a", "r", "n", "i", "n", "g", " ", "gong_work", "cheng", "shi_master", "\n",
      "3", "-", "5", "nian", "\n", "shang", "hai">>

PythonTitle == <<"P", "y", "t", "h", "o", "n", "fen", "xi", "shi_master">>

PlainTitle == <<"shu", "ju", "fen", "xi">>

\* <<title, salary, raw_text>> of the records read from the CSV file; an empty
\* cell of the file is read as a missing value
ListingPool ==
    { << PythonTitle, <<"1", "5", "-", "2", "5", "K">>, CardText >>,
      << PlainTitle, <<"1", "5", "-", "2", "5", "K">>, SkillText >>,
      << PythonTitle, <<"1", "0", "-", "2", "0", "K">>, NaNCell >>,
      << NaNCell, <<"8", "-", "1", "2", "K">>, SkillText >>,
      << <<"M", "a", "c", "h", "i", "n", "e">>, <<"2", "0", "4", "0", "K">>, LearningText >>,
      << PlainTitle, <<"shuang", "xiu">>, SkillText >>,
      << <<"E", "X", "C", "E", "L", "zhuan", "yuan">>, <<"5", "0", "K">>, CardText >>,
      << PlainTitle, <<"1", "2", "K">>, NoEvidenceText >> }

ListingRow(i, rec) ==
    [index |-> i, title |-> rec[1], salary |-> rec[2], raw_text |-> rec[3],
     city |-> Unknown]

InitRun ==
    /\ pc = "clean_data"
    /\ \E n \in 0..MaxBatch : \E recs \in [1..n -> ListingPool] :
          df_in = [i \in 1..n |-> ListingRow(i, recs[i])]
    /\ df = df_in
    /\ filtered_count = 0
    /\ log = <<>>
    /\ salary_str = Unset
    /\ salary_ret = Unset
    /\ raw_text = Unset
    /\ city_ret = Unset
    /\ exp_deg_ret = Unset
    /\ NoSpider
    /\ stage = Unset
    /\ NoTrain

RunNext == CleanNext \/ FeatureEngineering

RunSpec == InitRun /\ [][RunNext]_vars

(***************************************************************************)
(* clean_data and feature_engineering as one function of the frame: what   *)
(* the sequential run returns when it returns.                             *)
(***************************************************************************)
clean_data(frame) ==
    LET fixed == [i \in 1..Len(frame) |-> city_fix(frame[i])]
        parsed == dropna_avg_salary([i \in 1..Len(fixed) |-> salary_columns(fixed[i])])
        kept == filter_band(parsed)
    IN [i \in 1..Len(kept) |-> exp_degree_columns(kept[i])]

run_frame(frame) == feature_engineering(clean_data(frame))

(***************************************************************************)
(* The same steps taken record by record, in any order and interleaving:   *)
(* each record has its own position in the steps, and the results are      *)
(* collected by input position.                                            *)
(***************************************************************************)
MaxWorkBatch == 2   \* records of a batch handed to the workers

Terminal == {"done", "dropped"}

\* one step of the record at position i
RecordStep(i) ==
    /\ pc = "workers"
    /\ stage[i] \notin Terminal
    /\ \/ /\ stage[i] = "city"
          /\ df' = [df EXCEPT ![i] = city_fix(df[i])]
          /\ stage' = [stage EXCEPT ![i] = "salary"]
       \/ /\ stage[i] = "salary"
          /\ df' = [df EXCEPT ![i] = salary_columns(df[i])]
          /\ stage' = [stage EXCEPT ![i] =
                          IF notna_avg_salary(salary_columns(df[i]))
                          THEN "filter" ELSE "dropped"]
       \/ /\ stage[i] = "filter"
          /\ df' = df
          /\ stage' = [stage EXCEPT ![i] =
                          IF in_band(df[i]) THEN "exp_degree" ELSE "dropped"]
       \/ /\ stage[i] = "exp_degree"
          /\ df' = [df EXCEPT ![i] = exp_degree_columns(df[i])]
          /\ stage' = [stage EXCEPT ![i] = "features"]
       \/ /\ stage[i] = "features"
          /\ df' = [df EXCEPT ![i] = df[i] @@ skill_flags(df[i])]
          /\ stage' = [stage EXCEPT ![i] = "done"]
    /\ UNCHANGED <<pc, salary_str, salary_ret, raw_text, city_ret, df_in,
                   filtered_count, log, exp_deg_ret, spiderVars, trainVars>>

WorkerStep == \E i \in 1..Len(df) : RecordStep(i)

\* the rows that were not dropped, by input position
collect(rows, stages) ==
    LET done == {i \in 1..Len(rows) : stages[i] = "done"}
    IN [k \in 1..Cardinality(done) |->
           rows[CHOOSE i \in done : Cardinality({j \in done : j <= i}) = k]]

Collect ==
    /\ pc = "workers"
    /\ \A i \in 1..Len(df) : stage[i] \in Terminal
    /\ df' = collect(df, stage)
    /\ pc' = "collected"
    /\ UNCHANGED <<salary_str, salary_ret, raw_text, city_ret, df_in,
                   filtered_count, log, exp_deg_ret, spiderVars, stage, trainVars>>

InitWorkers ==
    /\ pc = "workers"
    /\ \E n \in 0..MaxWorkBatch : \E recs \in [1..n -> ListingPool] :
          df_in = [i \in 1..n |-> ListingRow(i, recs[i])]
    /\ df = df_in
    /\ stage = [i \in 1..Len(df_in) |-> "city"]
    /\ filtered_count = 0
    /\ log = <<>>
    /\ salary_str = Unset
    /\ salary_ret = Unset
    /\ raw_text = Unset
    /\ city_ret = Unset
    /\ exp_deg_ret = Unset
    /\ NoSpider
    /\ NoTrain

WorkersNext == WorkerStep \/ Collect

WorkersSpec == InitWorkers /\ [][WorkersNext]_vars

(***************************************************************************)
(* SalaryPredictor.load_and_preprocess and SalaryPredictor.train           *)
(* (src/src/model_train.py), as main calls them (src/main.py).  df_in is   *)
(* the table read from the database, df the frame being filtered.          *)
(***************************************************************************)
MinSamples == 10     \* len(df) < 10
TrainHigh == 50000   \* df['avg_salary'] < 50000

MaxRows == 11        \* rows of the table read from the database

\* read_sql raised: the table does not exist
NoTable == <<[error |-> "no such table"]>>

has_degree(row) == row.degree_value > 0

below_train_high(row) == row.avg_salary < Num(TrainHigh)

\* lines 58 and 66
train_filter(frame) == SelectSeq(SelectSeq(frame, has_degree), below_train_high)

\* whether load_and_preprocess returns X, y (it raises ValueError otherwise)
preprocess_returns(table) ==
    IF table = NoTable THEN FALSE
    ELSE Len(table) >= MinSamples /\ Len(train_filter(table)) >= MinSamples

\* try: X, y = self.load_and_preprocess()
LoadAndPreprocess ==
    /\ pc = "train"
    /\ IF preprocess_returns(df_in)
       THEN /\ df' = train_filter(df_in)
            /\ pc' = "train:fit"
       ELSE /\ df' = df
            /\ pc' = "train:except"
    /\ UNCHANGED <<salary_str, salary_ret, raw_text, city_ret, df_in,
                   filtered_count, log, exp_deg_ret, spiderVars, stage, trainVars>>

\* lines 120-145: split, fit, evaluate, print the report
Fit ==
    /\ pc = "train:fit"
    /\ model' = "RandomForestRegressor"
    /\ stdout' = Append(stdout, "Model Evaluation")
    /\ pc' = "train:save"
    /\ UNCHANGED <<salary_str, salary_ret, raw_text, city_ret, df_in, df,
                   filtered_count, log, exp_deg_ret, spiderVars, stage, saved>>

\* lines 147-148: analyze_feature_importance and save_model
SaveModel ==
    /\ pc = "train:save"
    /\ saved' = (model /= None)
    /\ pc' = "train:returned"
    /\ UNCHANGED <<salary_str, salary_ret, raw_text, city_ret, df_in, df,
                   filtered_count, log, exp_deg_ret, spiderVars, stage, model, stdout>>

\* except Exception as e: logging.error(...), and train returns
TrainExcept ==
    /\ pc = "train:except"
    /\ log' = Append(log, <<"error", 1>>)
    /\ pc' = "train:returned"
    /\ UNCHANGED <<salary_str, salary_ret, raw_text, city_ret, df_in, df,
                   filtered_count, exp_deg_ret, spiderVars, stage, trainVars>>

\* main, line 54, after predictor.train() returned
MainReport ==
    /\ pc = "train:returned"
    /\ stdout' = Append(stdout, "training done, model file saved")
    /\ pc' = "main:reported"
    /\ UNCHANGED <<salary_str, salary_ret, raw_text, city_ret, df_in, df,
                   filtered_count, log, exp_deg_ret, spiderVars, stage, model, saved>>

\* rows of the table: kept, without a degree, with an average of 50000
TrainRow(kind) ==
    IF kind = "kept" THEN [degree_value |-> 2, avg_salary |-> Num(20000)]
    ELSE IF kind = "no_degree" THEN [degree_value |-> 0, avg_salary |-> Num(20000)]
    ELSE [degree_value |-> 3, avg_salary |-> Num(50000)]

TrainTable(kept, no_degree, high) ==
    [i \in 1..(kept + no_degree + high) |->
        IF i <= kept THEN TrainRow("kept")
        ELSE IF i <= kept + no_degree THEN TrainRow("no_degree")
        ELSE TrainRow("high")]

InitTrain ==
    /\ pc = "train"
    /\ \/ df_in = NoTable
       \/ \E kept, no_degree, high \in 0..MaxRows :
             /\ kept + no_degree + high <= MaxRows
             /\ df_in = TrainTable(kept, no_degree, high)
    /\ df = Unset
    /\ filtered_count = 0
    /\ log = <<>>
    /\ salary_str = Unset
    /\ salary_ret = Unset
    /\ raw_text = Unset
    /\ city_ret = Unset
    /\ exp_deg_ret = Unset
    /\ NoSpider
    /\ stage = Unset
    /\ NoTrain

TrainNext == LoadAndPreprocess \/ Fit \/ SaveModel \/ TrainExcept \/ MainReport

TrainSpec == InitTrain /\ [][TrainNext]_vars

(***************************************************************************)
(* SpiderFinal.clean_salary (src/src/spider_pro.py) and what                *)
(* SpiderFinal.start does with its result: a card whose salary is not      *)
(* accepted is skipped, the accepted string becomes the salary cell that   *)
(* _parse_salary later reads.                                              *)
(***************************************************************************)
SplitThreshold == 100   \* val > 100
SingleLimit == 200      \* val <= 200

\* None where a str is expected
NoneStr == <<"None">>

\* the characters of the texts for which str.isalnum is false
NotAlnum == {" ", "\t", "\r", "\n", "u3000", "dot", "comma", "-", "."}

\* c.isalnum() or c in ['-', '.']
is_kept(c) == c \notin NotAlnum \/ c \in {"-", "."}

\* "".join([c for c in raw_str if ...]).upper()
basic_clean(raw) == upper(SelectSeq(raw, is_kept))

\* whether re.search(r'(\d+-\d+K)', s) matches from i
RangeKAt(s, i) ==
    /\ IsDigit(s[i])
    /\ LET e == RunEnd(s, i)
       IN /\ e < Len(s)
          /\ s[e] = "-"
          /\ IsDigit(s[e + 1])
          /\ LET f == RunEnd(s, e + 1)
             IN f <= Len(s) /\ s[f] = "K"

\* re.search(r'(\d+-\d+K)', s).group(1): the leftmost match, or NoneStr
search_range_k(s) ==
    LET starts == {i \in 1..Len(s) : RangeKAt(s, i)}
    IN IF starts = {} THEN NoneStr
       ELSE LET i == CHOOSE x \in starts : \A y \in starts : x <= y
                e == RunEnd(s, i)
            IN SubSeq(s, i, RunEnd(s, e + 1))

\* re.search(r'^(\d+)K', s).group(1), or NoneStr
match_fused(s) ==
    IF s /= <<>> /\ IsDigit(s[1]) /\ RunEnd(s, 1) <= Len(s) /\ s[RunEnd(s, 1)] = "K"
    THEN SubSeq(s, 1, RunEnd(s, 1) - 1)
    ELSE NoneStr

\* f"{part1}-{part2}K" when the parts are strictly increasing, else NoneStr
split_if_increasing(part1, part2) ==
    IF ToInt(part1) < ToInt(part2) THEN part1 \o <<"-">> \o part2 \o <<"K">>
    ELSE NoneStr

\* lines 74-84: the split string, or NoneStr when no split is returned
smart_split(num_str) ==
    IF ToInt(num_str) > SplitThreshold
    THEN IF Len(num_str) = 4
         THEN split_if_increasing(SubSeq(num_str, 1, 2), SubSeq(num_str, 3, 4))
         ELSE IF Len(num_str) = 3
         THEN split_if_increasing(SubSeq(num_str, 1, 1), SubSeq(num_str, 2, 3))
         ELSE NoneStr
    ELSE NoneStr

clean_salary(raw) ==
    IF raw = NoneStr \/ raw = <<>> THEN NoneStr
    ELSE LET s == basic_clean(raw)
         IN IF search_range_k(s) /= NoneStr THEN search_range_k(s)
            ELSE IF match_fused(s) /= NoneStr
            THEN IF smart_split(match_fused(s)) /= NoneStr
                 THEN smart_split(match_fused(s))
                 ELSE IF ToInt(match_fused(s)) <= SingleLimit THEN s
                 ELSE NoneStr
            ELSE NoneStr

\* line 157: real_salary = self.clean_salary(raw_ocr_salary)
OcrClean ==
    /\ pc = "clean_salary"
    /\ clean_ret' = clean_salary(raw_str)
    /\ pc' = "clean_salary:returned"
    /\ UNCHANGED <<salary_str, salary_ret, raw_text, city_ret, df_in, df,
                   filtered_count, log, exp_deg_ret, raw_str, stage, trainVars>>

\* lines 160-190: the card is skipped, or its item carries the salary string
\* that the pipeline parses
KeepOrSkip ==
    /\ pc = "clean_salary:returned"
    /\ IF clean_ret = NoneStr \/ clean_ret = <<>>
       THEN /\ pc' = "card_skipped"
            /\ UNCHANGED salary_str
       ELSE /\ salary_str' = clean_ret
            /\ pc' = "_parse_salary"
    /\ UNCHANGED <<salary_ret, raw_text, city_ret, df_in, df,
                   filtered_count, log, exp_deg_ret, spiderVars, stage, trainVars>>

\* what the OCR reads off a salary element
OtherOcr ==
    { NoneStr,
      <<>>,
      <<"shuang", "xiu">>,
      <<"shuang", "xiu", "ji_perf", "xiao_perf">>,
      <<"2", "0", " ", "4", "0", "K">>,
      <<"2", "0", "4", "0", "k">>,
      <<"1", "5", "-", "2", "5", "K", "dot", "1", "3", "xin">>,
      <<"2", "0", "4", "0", "K", "dot", "1", "3", "xin">>,
      <<"3", "0", "K", "1", "3", "xin">>,
      <<"8", "-", "1", "2", "k">>,
      <<"1", "2", "-", "1", "5", "-", "2", "0", "K">>,
      <<"1", "2", "3", "4", "5", "K">>,
      <<"0", "0", "3", "1", "2", "K">>,
      <<"K">>,
      <<"1", "5">>,
      <<"1", "5", "-", "2", "5">>,
      <<"1", ".", "5", "-", "2", ".", "5", "K">>,
      <<"-", "5", "K">>,
      <<"1", "5", "0", " ", "K">>,
      <<"yue", "xin", "1", "5", "K">> }

IsOcrInput(raw) ==
       \* '<digits>K' for every digit run of length 1..MaxRun
    \/ \E n \in 1..MaxRun : \E d \in [1..n -> Digit] : raw = d \o <<"K">>
       \* '<a>-<b>K'
    \/ \E a, b \in BaseUnitVals : raw = RangeToken(a, b)
    \/ raw \in OtherOcr

InitSpider ==
    /\ pc = "clean_salary"
    /\ IsOcrInput(raw_str)
    /\ clean_ret = Unset
    /\ salary_str = Unset
    /\ salary_ret = Unset
    /\ raw_text = Unset
    /\ city_ret = Unset
    /\ df_in = Unset
    /\ df = Unset
    /\ filtered_count = 0
    /\ log = Unset
    /\ exp_deg_ret = Unset
    /\ stage = Unset
    /\ NoTrain

SpiderNext == OcrClean \/ KeepOrSkip \/ ParseSalary

SpiderSpec == InitSpider /\ [][SpiderNext]_vars

(***************************************************************************)
(* The whole model: any of the calls.                                      *)
(***************************************************************************)
Init ==
    \/ InitSalary \/ InitCity \/ InitExpDegree
    \/ InitClean \/ InitRun \/ InitWorkers \/ InitTrain \/ InitSpider

Next ==
    \/ ParseSalary \/ ExtractCity \/ ParseExpDegree
    \/ RunNext \/ WorkersNext \/ TrainNext \/ OcrClean \/ KeepOrSkip

Spec == Init /\ [][Next]_vars

(***************************************************************************)
(* Reading a run of clean_data.                                            *)
(***************************************************************************)
CleanReturned == pc = "clean_data:returned"

CleanRaised == pc = "ValueError"

\* index labels of the records whose salary the parser rejects
ParseRejected ==
    {i \in 1..Len(df_in) : ~Accepted(_parse_salary(df_in[i].salary))}

\* index labels of the records whose salary is accepted with an average
\* outside the band
OutOfBand ==
    {i \in 1..Len(df_in) :
        /\ Accepted(_parse_salary(df_in[i].salary))
        /\ ~(/\ _parse_salary(df_in[i].salary)[3] > Num(2000)
             /\ _parse_salary(df_in[i].salary)[3] < Num(50000))}

\* index labels of the records that are to be emitted
Survivors == (1..Len(df_in)) \ (ParseRejected \cup OutOfBand)

Populated(row) ==
    /\ {"city", "min_salary", "max_salary", "avg_salary", "exp_years",
        "degree_value"} \subseteq DOMAIN row
    /\ row.city /= <<>> /\ row.city /= NaNCell
    /\ ~isna(row.min_salary) /\ ~isna(row.max_salary) /\ ~isna(row.avg_salary)
    /\ row.exp_years >= 0
    /\ row.degree_value \in 0..4

(***************************************************************************)
(* C6  clean_data emits exactly the input-order subsequence of the records *)
(* whose salary is accepted with 2000 < avg < 50000: one row per such      *)
(* record, none for a digit-free salary or an average of 60000, no         *)
(* reordering, every row with city, min/max/avg salary, exp_years and      *)
(* degree_value populated.  The run ends without a DataFrame only when no  *)
(* record is to be emitted.                                                *)
(***************************************************************************)
C6_SurvivorsInOrder ==
    /\ CleanReturned =>
          /\ Len(df) = Cardinality(Survivors)
          /\ {df[k].index : k \in 1..Len(df)} = Survivors
          /\ \A k, l \in 1..Len(df) : k < l => df[k].index < df[l].index
          /\ \A k \in 1..Len(df) :
                /\ df[k].salary = df_in[df[k].index].salary
                /\ df[k].raw_text = df_in[df[k].index].raw_text
                /\ df[k].title = df_in[df[k].index].title
                /\ Populated(df[k])
                /\ df[k].salary /= <<"shuang", "xiu">>
                /\ df[k].avg_salary /= Num(60000)
    /\ CleanRaised => Survivors = {}

\* three records, the first with an average of 60000, the second without a
\* digit in its salary: only the third is emitted
C6_Witness ==
    /\ CleanReturned
    /\ Len(df_in) = 3
    /\ df_in[1].salary = <<"5", "0", "-", "7", "0", "K">>
    /\ df_in[2].salary = <<"shuang", "xiu">>
    /\ df_in[3].salary = <<"1", "5", "-", "2", "5", "K">>
    /\ Len(df) = 1
    /\ df[1].index = 3
    /\ df[1].avg_salary = Num(20000)

(***************************************************************************)
(* C7  Every dropped record is accounted for under one stage: number of    *)
(* input records = emitted + dropped at the salary-parse stage + dropped   *)
(* at the plausibility-filter stage, and the run produces both drop        *)
(* counts.                                                                 *)
(***************************************************************************)
C7_DropCountsProduced ==
    CleanReturned =>
        \E p, q \in 1..Len(log) :
            /\ log[p][1] = "salary_parse"
            /\ log[q][1] = "plausibility"
            /\ Len(df_in) = Len(df) + log[p][2] + log[q][2]

\* What the run does compute: the records leave in two disjoint ways, and
\* filtered_count is the number that left at the plausibility filter; it is
\* logged only when positive, and no count of the parse stage is made.
DropAccounting ==
    CleanReturned =>
        /\ Len(df_in) = Len(df) + Cardinality(ParseRejected) + filtered_count
        /\ filtered_count = Cardinality(OutOfBand)
        /\ log = IF filtered_count > 0 THEN <<filtered_message(filtered_count)>>
                 ELSE <<>>

(***************************************************************************)
(* Reading a listing text, for the statements about the experience/degree  *)
(* extractor.                                                              *)
(***************************************************************************)
ExpDegreeReturned == pc = "exp_degree_returned"

IsStr(text) == text /= NaNCell

\* the word w stands somewhere in the text
Occurs(text, w) ==
    \E i \in 1..(Len(text) - Len(w) + 1) : SubSeq(text, i, i + Len(w) - 1) = w

\* a no-degree-requirement phrase: 'xueli buxian', or 'xueli yaoqiu' together
\* with 'buxian'
NoDegreePhrase(text) ==
    \/ Occurs(text, XueLiBuXian)
    \/ Occurs(text, XueLiYaoQiu) /\ Occurs(text, BuXian)

DegreeCodes == {<<BoShi, 4>>, <<ShuoShi, 3>>, <<BenKe, 2>>, <<DaZhuan, 1>>}

\* codes of the degree keywords the text contains
CodesPresent(text) ==
    {d[2] : d \in {e \in DegreeCodes : Occurs(text, e[1])}}

MostSenior(text) ==
    LET cs == CodesPresent(text) \cup {0}
    IN CHOOSE c \in cs : \A o \in cs : o <= c

(***************************************************************************)
(* C11  Degree extraction is a first-match chain: a text with a            *)
(* no-degree-requirement phrase gives 0 even when it has a degree keyword; *)
(* otherwise the code of the most senior keyword present (doctorate 4 >    *)
(* master 3 > bachelor 2 > associate 1); otherwise 0; the result is one of *)
(* 0..4 for every input, a non-string input included.                      *)
(***************************************************************************)
C11_DegreeChain ==
    ExpDegreeReturned =>
        /\ exp_deg_ret[2] \in 0..4
        /\ ~IsStr(raw_text) => exp_deg_ret[2] = 0
        /\ (IsStr(raw_text) /\ NoDegreePhrase(raw_text)) => exp_deg_ret[2] = 0
        /\ (IsStr(raw_text) /\ ~NoDegreePhrase(raw_text))
              => exp_deg_ret[2] = MostSenior(raw_text)

\* 'xueli buxian' next to a doctorate, and a doctorate next to a bachelor
C11_Witness ==
    \/ /\ ExpDegreeReturned
       /\ raw_text = XueLiBuXian \o BoShi
       /\ exp_deg_ret[2] = 0
    \/ /\ ExpDegreeReturned
       /\ raw_text = BenKe \o BoShi
       /\ exp_deg_ret[2] = 4

\* the 'X-Ynian' matches of a text as <<start, hyphen, nian>>; X is the whole
\* run of digits from start
ExpRanges(text) ==
    {m \in (1..Len(text)) \X (1..Len(text)) \X (1..Len(text)) :
        /\ m[1] < m[2] /\ m[2] + 1 < m[3]
        /\ AllDigits(SubSeq(text, m[1], m[2] - 1))
        /\ m[1] = 1 \/ ~IsDigit(text[m[1] - 1])
        /\ text[m[2]] = "-"
        /\ AllDigits(SubSeq(text, m[2] + 1, m[3] - 1))
        /\ text[m[3]] = "nian"}

\* the 'Xnian' matches of a text as <<start, nian>>
ExpSingles(text) ==
    {m \in (1..Len(text)) \X (1..Len(text)) :
        /\ m[1] < m[2]
        /\ AllDigits(SubSeq(text, m[1], m[2] - 1))
        /\ m[1] = 1 \/ ~IsDigit(text[m[1] - 1])
        /\ text[m[2]] = "nian"}

\* the match that starts first
Leftmost(S) == CHOOSE m \in S : \A o \in S : m[1] <= o[1]

EntryLevel(text) == Occurs(text, YingJie) \/ Occurs(text, ZaiXiao)

(***************************************************************************)
(* C12  Experience extraction follows a strict priority: with an 'X-Ynian' *)
(* range the result is (X+Y)/2, also when entry-level wording or a single  *)
(* 'Xnian' appears; else with entry-level wording it is 0.5; else with a   *)
(* single 'Xnian' it is X; else 0; it is never negative, and               *)
(* '3-5nian jingyan, benke yishang' gives 4.0 with degree 2.               *)
(***************************************************************************)
C12_ExperiencePriority ==
    ExpDegreeReturned =>
        /\ exp_deg_ret[1] >= 0
        /\ ~IsStr(raw_text) => exp_deg_ret[1] = 0
        /\ raw_text = ExpExample => exp_deg_ret = <<Num(4), 2>>
        /\ IsStr(raw_text) =>
              exp_deg_ret[1] =
                 IF ExpRanges(raw_text) /= {}
                 THEN LET m == Leftmost(ExpRanges(raw_text))
                          X == ToInt(SubSeq(raw_text, m[1], m[2] - 1))
                          Y == ToInt(SubSeq(raw_text, m[2] + 1, m[3] - 1))
                      IN (X * Scale + Y * Scale) \div 2
                 ELSE IF EntryLevel(raw_text) THEN Scale \div 2
                 ELSE IF ExpSingles(raw_text) /= {}
                 THEN LET m == Leftmost(ExpSingles(raw_text))
                      IN ToInt(SubSeq(raw_text, m[1], m[2] - 1)) * Scale
                 ELSE 0

\* a range next to entry-level wording and a single 'Xnian'
C12_Witness ==
    /\ ExpDegreeReturned
    /\ raw_text = YingJie \o <<"5", "nian">> \o <<"1", "-", "2", "nian">>
    /\ exp_deg_ret[1] = 1500

(***************************************************************************)
(* Reading a run of clean_data and feature_engineering.                    *)
(***************************************************************************)
RunReturned == pc = "feature_engineering:returned"

\* a missing cell read as the empty text
TextOf(cell) == IF cell = NaNCell THEN <<>> ELSE cell

\* title and description written one after the other, as one text
TitleAndDescription(row) == TextOf(row.title) \o <<" ">> \o TextOf(row.raw_text)

(***************************************************************************)
(* C13  For every record and every vocabulary term, has_<term> is 1 if and *)
(* only if the lower-cased term is a substring of the lower-cased          *)
(* concatenation of title and description, without a word-boundary check   *)
(* ('Java' is flagged by 'JavaScript'), also when only one of the two      *)
(* fields carries the term and the other is missing.                       *)
(***************************************************************************)
C13_SkillFlags ==
    RunReturned =>
        \A i \in 1..Len(df) : \A k \in 1..Len(skills) :
            df[i][has_columns[k]] = 1
               <=> Occurs(lower(TitleAndDescription(df[i])), lower(skills[k]))

(***************************************************************************)
(* C15  A malformed input record (a non-string raw_text, a missing title)  *)
(* is skipped and counted: it produces no output row, it is included in a  *)
(* drop count, and it does not abort the other records of the batch.       *)
(***************************************************************************)
Malformed(row) == row.raw_text = NaNCell \/ row.title = NaNCell

RECURSIVE SumCounts(_)
SumCounts(entries) ==
    IF entries = <<>> THEN 0 ELSE Head(entries)[2] + SumCounts(Tail(entries))

C15_MalformedSkipped ==
    /\ RunReturned =>
          /\ \A i \in 1..Len(df) : ~Malformed(df_in[df[i].index])
          /\ SumCounts(log) >= Cardinality({i \in 1..Len(df_in) : Malformed(df_in[i])})
    /\ (pc = "ValueError") => Survivors = {}

(***************************************************************************)
(* Reading a run of the training stage.                                    *)
(***************************************************************************)
\* fewer than 10 rows, before or after filtering
TooFewSamples ==
    /\ df_in /= NoTable
    /\ \/ Len(df_in) < 10
       \/ Cardinality({i \in 1..Len(df_in) :
              df_in[i].degree_value > 0 /\ df_in[i].avg_salary < Num(50000)}) < 10

ReportedSuccess ==
    \E k \in 1..Len(stdout) : stdout[k] = "training done, model file saved"

(***************************************************************************)
(* C14  With fewer than 10 rows, before or after filtering, the run stops  *)
(* and the condition is surfaced to the caller as an explicit failure:     *)
(* train does not complete normally, no model is fitted or saved, and main *)
(* does not report the training stage as successful.                       *)
(***************************************************************************)
C14_TooFewSurfaced ==
    (pc \in {"train", "train:fit", "train:save", "train:except",
             "train:returned", "main:reported"} /\ TooFewSamples) =>
        /\ pc /= "train:returned"
        /\ model = None /\ ~saved
        /\ ~ReportedSuccess

\* What does hold: nothing is fitted or saved, and the failure is logged.
NoModelFromTooFew ==
    (pc \in {"train:returned", "main:reported"} /\ TooFewSamples) =>
        /\ model = None /\ ~saved
        /\ \E k \in 1..Len(log) : log[k][1] = "error"

(***************************************************************************)
(* Reading a run of the workers.                                           *)
(***************************************************************************)
Collected == pc = "collected"

\* a row without its index label
Fields(row) == [c \in (DOMAIN row) \ {"index"} |-> row[c]]

RunIsRunFrame == RunReturned => df = run_frame(df_in)

(***************************************************************************)
(* Reading a hyphenated or a hyphen-free token.                            *)
(***************************************************************************)
\* the token without its unit letter
Core(s) == IF s /= <<>> /\ s[Len(s)] = "K" THEN SubSeq(s, 1, Len(s) - 1) ELSE s

\* s is '<a>-<b>' or '<a>-<b>K', two runs of digits around one hyphen
IsHyphenToken(s) ==
    /\ s /= NaNCell
    /\ \E h \in 2..(Len(Core(s)) - 1) :
          /\ Core(s)[h] = "-"
          /\ AllDigits(SubSeq(Core(s), 1, h - 1))
          /\ AllDigits(SubSeq(Core(s), h + 1, Len(Core(s))))

FirstInt(s) == ToInt(SubSeq(Core(s), 1, HyphenAt(s) - 1))

SecondInt(s) == ToInt(SubSeq(Core(s), HyphenAt(s) + 1, Len(Core(s))))

\* the triple of the bounds lo and hi, given in thousandths of a working
\* unit: rejected above the sanity limit, else ordered
TripleOfBounds(lo, hi) ==
    IF lo > 200 * 1000 \/ hi > 200 * 1000 THEN NaNTriple
    ELSE IF lo > hi THEN <<hi * 1000, lo * 1000, (lo + hi) * 500>>
    ELSE <<lo * 1000, hi * 1000, (lo + hi) * 500>>

(***************************************************************************)
(* C17 as stated: for every token '<a>-<b>' in which either integer        *)
(* exceeds 50, both are divided by 1000 before the sanity limit is applied *)
(* ('1000-2000' is accepted as (1000, 2000, 1500), '60-80' is 0.06-0.08    *)
(* working units); when neither exceeds 50 they are used unchanged.        *)
(***************************************************************************)
C17_Original ==
    (Returned /\ IsHyphenToken(salary_str)) =>
        LET a == FirstInt(salary_str)
            b == SecondInt(salary_str)
        IN salary_ret = IF a > 50 \/ b > 50 THEN TripleOfBounds(a, b)
                        ELSE TripleOfBounds(a * 1000, b * 1000)

(***************************************************************************)
(* C17 amended: for every token '<a>-<b>', both integers are divided by    *)
(* 1000 before the sanity limit is applied exactly when the first integer  *)
(* exceeds 1000; otherwise both are used unchanged as working units.  So   *)
(* '1500-2500' is accepted as (1500, 2500, 2000), '60-80' is 60-80 working *)
(* units, (60000, 80000, 70000), and '1000-2000' is rejected.              *)
(***************************************************************************)
C17_MagnitudeRule ==
    (Returned /\ IsHyphenToken(salary_str)) =>
        LET a == FirstInt(salary_str)
            b == SecondInt(salary_str)
        IN /\ salary_ret = IF a > 1000 THEN TripleOfBounds(a, b)
                           ELSE TripleOfBounds(a * 1000, b * 1000)
           /\ salary_str = <<"1", "0", "0", "0", "-", "2", "0", "0", "0">>
                 => salary_ret = NaNTriple
           /\ salary_str = <<"6", "0", "-", "8", "0", "K">>
                 => salary_ret = <<Num(60000), Num(80000), Num(70000)>>

\* a range in base currency units, divided
C17_Witness ==
    /\ Returned
    /\ salary_str = <<"1", "5", "0", "0", "-", "2", "5", "0", "0">>
    /\ salary_ret = <<Num(1500), Num(2500), Num(2000)>>

\* the first run of digits of a token, as <<first, last>>
FirstRun(s) ==
    LET first == CHOOSE i \in 1..Len(s) :
                    IsDigit(s[i]) /\ \A j \in 1..(i - 1) : ~IsDigit(s[j])
        last == CHOOSE e \in first..Len(s) :
                    /\ AllDigits(SubSeq(s, first, e))
                    /\ e = Len(s) \/ ~IsDigit(s[e + 1])
    IN <<first, last>>

HasDigit(s) == \E i \in 1..Len(s) : IsDigit(s[i])

HyphenFree(s) == s /= NaNCell /\ \A i \in 1..Len(s) : s[i] /= "-"

(***************************************************************************)
(* C18  Fused-digit fallback: for every hyphen-free token whose first run  *)
(* of digits has an integer value above 200, a 4-digit run is split into   *)
(* its first two and last two digits, a 3-digit run into its first digit   *)
(* and last two digits, and a run of any other length (a longer run with   *)
(* leading zeros such as '00300' included) is rejected with all fields     *)
(* absent; no value is guessed.                                            *)
(***************************************************************************)
C18_FusedFallback ==
    (Returned /\ HyphenFree(salary_str) /\ HasDigit(salary_str)) =>
        LET r == FirstRun(salary_str)
            run == SubSeq(salary_str, r[1], r[2])
        IN ToInt(run) > 200 =>
              salary_ret =
                 IF Len(run) = 4
                 THEN TripleOfBounds(ToInt(SubSeq(run, 1, 2)) * 1000,
                                     ToInt(SubSeq(run, 3, 4)) * 1000)
                 ELSE IF Len(run) = 3
                 THEN TripleOfBounds(ToInt(SubSeq(run, 1, 1)) * 1000,
                                     ToInt(SubSeq(run, 2, 3)) * 1000)
                 ELSE NaNTriple

(***************************************************************************)
(* Reading an OCR token.                                                   *)
(***************************************************************************)
\* raw is '<digits>K'
IsDigitsK(raw) ==
    /\ raw /= NoneStr
    /\ Len(raw) >= 2
    /\ raw[Len(raw)] = "K"
    /\ AllDigits(SubSeq(raw, 1, Len(raw) - 1))

DigitsOf(raw) == SubSeq(raw, 1, Len(raw) - 1)

\* the first part of the split of a run of 3 or 4 digits
Part1(ds) == ToInt(SubSeq(ds, 1, Len(ds) - 2))

Part2(ds) == ToInt(SubSeq(ds, Len(ds) - 1, Len(ds)))

CleanReturnedToken == pc \notin {"clean_salary"}

PassedOn == pc \in {"_parse_salary", "salary_returned"}

(***************************************************************************)
(* C19  Monotonicity filter of clean_salary: for every fused token         *)
(* '<digits>K' that qualifies for splitting (3 or 4 digits, value above    *)
(* the split threshold), the token is accepted only if part1 < part2;      *)
(* every token whose parts are not strictly increasing is discarded        *)
(* (None is returned) and is never passed on as a salary string.           *)
(***************************************************************************)
C19_MonotoneOrDiscarded ==
    (CleanReturnedToken /\ IsDigitsK(raw_str)
       /\ Len(DigitsOf(raw_str)) \in {3, 4}
       /\ ToInt(DigitsOf(raw_str)) > 100
       /\ ~(Part1(DigitsOf(raw_str)) < Part2(DigitsOf(raw_str))))
    => (clean_ret = NoneStr /\ ~PassedOn)

(***************************************************************************)
(* C20  clean_salary performs the same fused-digit disambiguation as       *)
(* _parse_salary, only stricter: for every hyphen-free token '<digits>K'   *)
(* that clean_salary accepts, _parse_salary of clean_salary's output       *)
(* returns the triple that _parse_salary returns for the original token.   *)
(***************************************************************************)
C20_SameDisambiguation ==
    (pc = "salary_returned" /\ IsDigitsK(raw_str) /\ clean_ret /= NoneStr)
    => salary_ret = _parse_salary(raw_str)

(***************************************************************************)
(* C21  Every salary string that clean_salary accepts is accepted by       *)
(* _parse_salary: no token that passes the cleaning at acquisition is      *)
(* later rejected by the pipeline's parser, for hyphenated, fused and      *)
(* single-value tokens alike.                                              *)
(***************************************************************************)
C21_AcceptedIsParsed ==
    (pc = "salary_returned" /\ raw_str /= Unset /\ clean_ret /= NoneStr)
    => Accepted(salary_ret)

(***************************************************************************)
(* C22  A text with a degree keyword and without the contiguous phrase     *)
(* 'xueli buxian' resolves to the code of the most senior degree keyword   *)
(* present; 0 is returned for a text with a degree keyword only when that  *)
(* phrase is present (a text with 'xueli yaoqiu', a degree and 'buxian'    *)
(* about something else still gets the degree's code).                     *)
(***************************************************************************)
C22_OnlyExplicitPhrase ==
    (ExpDegreeReturned /\ IsStr(raw_text) /\ CodesPresent(raw_text) /= {}) =>
        /\ ~Occurs(raw_text, XueLiBuXian) => exp_deg_ret[2] = MostSenior(raw_text)
        /\ exp_deg_ret[2] = 0 => Occurs(raw_text, XueLiBuXian)
        /\ raw_text = XueLiYaoQiu \o BenKe \o BuXian => exp_deg_ret[2] = 2

====
